---- MODULE Spec2Model ----
(***************************************************************************)
(* Streaming sketches of letterboxd-stream-analysis:                       *)
(*   BloomFilter            src/unnamed/part_001, src/bloom_filter.ipynb   *)
(*   FlajoletMartinSimple   src/count_distinct.ipynb, src/unnamed/part_000 *)
(*   FlajoletMartinMultiple src/count_distinct.ipynb, src/unnamed/part_000 *)
(* Objects are records of their fields; every method is an operator from   *)
(* the object (and its arguments) to the object after the call, and the    *)
(* actions apply the methods.  Python lists and bit arrays are functions   *)
(* over 0..n-1, as the code indexes them.                                  *)
(***************************************************************************)
EXTENDS Integers, Sequences, FiniteSets

VARIABLES
    notebook,   \* which file's BloomFilter class is loaded
    bloom,      \* the BloomFilter object: size, hash_count, bit_array
    h64,        \* mmh3.hash64: first word of the digest of (value, seed)
    added,      \* history: the values passed to BloomFilter.add so far
    fm,         \* the estimator object handed to process_csv
    sha256,     \* hashlib.sha256: the digest of a value, as an integer
    h128,       \* mmh3.hash128: the digest of (value, seed)
    seen,       \* history: the values passed to fm.process so far
    refed,      \* history: the last call fed fm.process a value fed before
    twin,       \* a FlajoletMartinSimple fed the same rows as fm, if any
    run,        \* the Bloom notebook's driver cell: its files, position, counters
    calls,      \* the fm.process calls in flight, one per thread
    ret         \* the last call and what it returned or raised

vars ==
    <<notebook, bloom, h64, added, fm, sha256, h128, seen, refed, twin, run,
      calls, ret>>

(***************************************************************************)
(* Bounds of the model.                                                    *)
(***************************************************************************)
\* largest bitmap_size a BloomFilter is built with
MaxSize == 3
\* largest hash_count a BloomFilter is built with
MaxHashCount == 2
\* mmh3.hash64 words range over -MaxHash64..MaxHash64 (signed 64-bit in the code)
MaxHash64 == 1
\* SHA-256 digests range over 1..MaxDigest (unsigned 256-bit in the code; no
\* value with the digest 0 is known, so none is fed)
MaxDigest == 4
\* mmh3.hash128 digests range over 0..MaxHash128 (unsigned 128-bit in the
\* code; mmh3.hash128("", 0) is 0)
MaxHash128 == 2
\* largest num_groups * hashes_per_group a FlajoletMartinMultiple is built with
MaxHashes == 4
\* longest stream whose reorderings are compared
MaxLen == 3
\* most rows of genres.csv and of movies.csv
MaxRows == 2

\* the values of the streams (row['id'], row['name'])
Elements == {"a", "b", "c"}
\* the values fed to the sketches that hash every value several times
FewElements == {"a", "b"}
\* the values random.randint draws the seeds from (0..2**32-1 in the code)
SeedVals == {0, 1}

None == "None"

(***************************************************************************)
(* Python built-ins the code relies on.                                    *)
(***************************************************************************)
\* range(n)
range(n) == 0 .. (n - 1)

\* len() of a list or bit array held as a function over range(n)
len(list) == Cardinality(DOMAIN list)

\* the position seq[idx] addresses in a sequence of length n: negative
\* indices count from the end, anything else outside raises IndexError (-1)
PyIndex(n, idx) ==
    IF idx >= 0 /\ idx < n THEN idx
    ELSE IF idx < 0 /\ idx >= -n THEN n + idx
    ELSE -1

\* bitarray(n) followed by setall(0)
bitarray_zeros(n) == [i \in range(n) |-> 0]

(***************************************************************************)
(* BloomFilter                                                             *)
(***************************************************************************)
\* mmh3.hash64(value, seed): a tuple of two signed 64-bit words.  Neither
\* version of the class ever reads the second word; it is pinned to 0.
mmh3_hash64(value, seed) == <<h64[value, seed], 0>>

BloomFilter_init(bitmap_size, hash_count) ==
    [size |-> bitmap_size,
     hash_count |-> hash_count,
     bit_array |-> bitarray_zeros(bitmap_size)]

\* _hashes of src/unnamed/part_001: the loop over range(hash_count), from
\* seed i on, appending hash64(value, i)[0] % size
RECURSIVE hashes_loop(_, _, _, _)
hashes_loop(self, value, i, hash_results) ==
    IF i >= self.hash_count THEN hash_results
    ELSE hashes_loop(self, value, i + 1,
                     Append(hash_results, mmh3_hash64(value, i)[1] % self.size))

\* mutant of BloomFilter_hashes: the seed is not passed on to the hash
BloomFilter_hashes_oneseed(self, value) ==
    [i \in 1 .. self.hash_count |-> mmh3_hash64(value, 0)[1] % self.size]

\* mutant of BloomFilter_hashes: the index is one past the remainder
BloomFilter_hashes_shifted(self, value) ==
    [i \in 1 .. self.hash_count |-> (mmh3_hash64(value, i - 1)[1] + 1) % self.size]

\* mutant of BloomFilter_hashes: the remainder takes the sign of the hash
BloomFilter_hashes_truncated(self, value) ==
    [i \in 1 .. self.hash_count |->
        LET hash == mmh3_hash64(value, i - 1)[1]
        IN  IF hash >= 0 THEN hash % self.size ELSE -((-hash) % self.size)]

BloomFilter_hashes(self, value) == hashes_loop(self, value, 0, <<>>)

\* _hashes of src/bloom_filter.ipynb: hash64(value, i) % size applies % to
\* the tuple itself, which raises TypeError in the first iteration
BloomFilterNb_hashes(self, value) ==
    IF self.hash_count <= 0 THEN [raised |-> None, hash_results |-> <<>>]
    ELSE [raised |-> "TypeError", hash_results |-> <<>>]

\* add: the loop "for hash_val in hashes: bit_array[hash_val] = 1", from
\* position k of hashes on; the result is the bit array and what was raised
RECURSIVE add_loop(_, _, _)
add_loop(bit_array, hashes, k) ==
    IF k > Len(hashes) THEN [bit_array |-> bit_array, raised |-> None]
    ELSE LET at == PyIndex(len(bit_array), hashes[k])
         IN  IF at = -1 THEN [bit_array |-> bit_array, raised |-> "IndexError"]
             ELSE add_loop([bit_array EXCEPT ![at] = 1], hashes, k + 1)

\* mutant of BloomFilter_add: the bit is toggled instead of set
RECURSIVE add_loop_toggle(_, _, _)
add_loop_toggle(bit_array, hashes, k) ==
    IF k > Len(hashes) THEN [bit_array |-> bit_array, raised |-> None]
    ELSE add_loop_toggle([bit_array EXCEPT ![hashes[k]] = 1 - @], hashes, k + 1)

BloomFilter_add_toggle(self, hashed) ==
    LET done == add_loop_toggle(self.bit_array, hashed.hash_results, 1)
    IN  [self |-> [self EXCEPT !.bit_array = done.bit_array], raised |-> done.raised]

\* mutant of BloomFilter_add: the filter grows by one position per call
BloomFilter_add_resizing(self, hashed) ==
    [self |-> [self EXCEPT !.size = @ + 1], raised |-> None]

\* mutant of BloomFilter_add: the bits of earlier values are cleared first
BloomFilter_add_only(self, hashed) ==
    IF hashed.raised # None THEN [self |-> self, raised |-> hashed.raised]
    ELSE LET done == add_loop(bitarray_zeros(self.size), hashed.hash_results, 1)
         IN  [self |-> [self EXCEPT !.bit_array = done.bit_array],
              raised |-> done.raised]

\* add, given what self._hashes(value) returned or raised: the object after
\* the call and what the call raised (None: it returned)
BloomFilter_add(self, hashed) ==
    IF hashed.raised # None THEN [self |-> self, raised |-> hashed.raised]
    ELSE LET done == add_loop(self.bit_array, hashed.hash_results, 1)
         IN  [self |-> [self EXCEPT !.bit_array = done.bit_array],
              raised |-> done.raised]

\* mutant of BloomFilter_query: any() instead of all()
BloomFilter_query_any(self, hashed) ==
    IF \E k \in 1 .. Len(hashed.hash_results) :
            self.bit_array[hashed.hash_results[k]] = 1
    THEN "True" ELSE "False"

\* query, given what self._hashes(value) returned or raised:
\* all(bit_array[hash_val] for hash_val in hashes), "True" or "False", or
\* the exception raised
BloomFilter_query(self, hashed) ==
    LET hashes == hashed.hash_results
        n == len(self.bit_array)
    IN  IF hashed.raised # None THEN hashed.raised
        ELSE IF \E k \in 1 .. Len(hashes) : PyIndex(n, hashes[k]) = -1
        THEN "IndexError"
        ELSE IF \A k \in 1 .. Len(hashes) :
                    self.bit_array[PyIndex(n, hashes[k])] = 1
        THEN "True" ELSE "False"

\* the call self._hashes(value) of src/unnamed/part_001: what it returned or
\* raised; "% self.size" raises ZeroDivisionError in the first iteration
\* when size is 0
BloomFilter_hashes_call(self, value) ==
    IF self.hash_count > 0 /\ self.size = 0
    THEN [raised |-> "ZeroDivisionError", hash_results |-> <<>>]
    ELSE [raised |-> None, hash_results |-> BloomFilter_hashes(self, value)]

\* self._hashes(value) of the class the loaded notebook defines
Hashes(value) ==
    IF notebook = "part_001"
    THEN BloomFilter_hashes_call(bloom, value)
    ELSE BloomFilterNb_hashes(bloom, value)

\* bloom.query(value) in the current state
Query(value) == BloomFilter_query(bloom, Hashes(value))

(***************************************************************************)
(* FlajoletMartinSimple                                                    *)
(***************************************************************************)
\* the built-in max of two integers
max(a, b) == IF a >= b THEN a ELSE b

\* b ** e for an integer e >= 0
RECURSIVE pow(_, _)
pow(b, e) == IF e <= 0 THEN 1 ELSE b * pow(b, e - 1)

\* the binary digits of n >= 0, most significant first, as bin() writes them
RECURSIVE digits(_)
digits(n) ==
    IF n < 2 THEN <<IF n = 1 THEN "1" ELSE "0">>
    ELSE Append(digits(n \div 2), IF n % 2 = 1 THEN "1" ELSE "0")

\* bin(n) for n >= 0: the string "0b" followed by the digits
bin(n) == <<"0", "b">> \o digits(n)

\* s[2:]
from2(s) == SubSeq(s, 3, Len(s))

\* s.rstrip(c)
RECURSIVE rstrip(_, _)
rstrip(s, c) ==
    IF s = <<>> \/ s[Len(s)] # c THEN s
    ELSE rstrip(SubSeq(s, 1, Len(s) - 1), c)

\* mutant of FlajoletMartinSimple_init: the maximum starts at 1
FlajoletMartinSimple_init_one == [class |-> "FlajoletMartinSimple", max_tail_length |-> 1]

FlajoletMartinSimple_init == [class |-> "FlajoletMartinSimple", max_tail_length |-> 0]

\* _hash: int(sha256(value.encode('utf8')).hexdigest(), 16), the digest read
\* as an unsigned integer
FlajoletMartinSimple_hash(value) == sha256[value]

\* s.lstrip(c)
RECURSIVE lstrip(_, _)
lstrip(s, c) == IF s = <<>> \/ Head(s) # c THEN s ELSE lstrip(Tail(s), c)

\* mutant of FlajoletMartinSimple_tail_length: the leading zeros are counted
FlajoletMartinSimple_tail_length_leading(hash_value) ==
    LET binary_hash == from2(bin(hash_value))
    IN  Len(binary_hash) - Len(lstrip(binary_hash, "0"))

FlajoletMartinSimple_tail_length(hash_value) ==
    LET binary_hash == from2(bin(hash_value))
    IN  Len(binary_hash) - Len(rstrip(binary_hash, "0"))

\* mutant of FlajoletMartinSimple_process: the tail length replaces the maximum
FlajoletMartinSimple_process_last(self, value) ==
    [self EXCEPT !.max_tail_length =
        FlajoletMartinSimple_tail_length(FlajoletMartinSimple_hash(value))]

\* mutant of FlajoletMartinSimple_process: the tail lengths are summed
FlajoletMartinSimple_process_sum(self, value) ==
    [self EXCEPT !.max_tail_length =
        @ + FlajoletMartinSimple_tail_length(FlajoletMartinSimple_hash(value))]

FlajoletMartinSimple_process(self, value) ==
    LET hash_value == FlajoletMartinSimple_hash(value)
        tail_length == FlajoletMartinSimple_tail_length(hash_value)
    IN  [self EXCEPT !.max_tail_length = max(self.max_tail_length, tail_length)]

\* mutant of FlajoletMartinSimple_estimate_cardinality: 2 * r for 2 ** r
FlajoletMartinSimple_estimate_cardinality_times(self) == 2 * self.max_tail_length

FlajoletMartinSimple_estimate_cardinality(self) == pow(2, self.max_tail_length)

(***************************************************************************)
(* FlajoletMartinMultiple                                                  *)
(***************************************************************************)
\* phi = 0.77351, the module-level correction factor, as PhiNum / PhiDen
PhiNum == 77351
PhiDen == 100000

\* the width in bits of a digest: hashlib.sha256, mmh3.hash128
HashWidth256 == 256
HashWidth128 == 128

\* mutant of corrected_cardinality: the estimate is multiplied by phi
corrected_cardinality_times(cardinality) == (cardinality * PhiNum) \div PhiDen

\* the notebook's correction of the simple estimate: int(cardinality / phi)
corrected_cardinality(cardinality) == (cardinality * PhiDen) \div PhiNum

\* __init__, with the seeds random.randint drew for range(num_hashes)
FlajoletMartinMultiple_init(num_groups, hashes_per_group, seeds) ==
    [class |-> "FlajoletMartinMultiple",
     num_groups |-> num_groups,
     hashes_per_group |-> hashes_per_group,
     num_hashes |-> num_groups * hashes_per_group,
     max_tail_length |-> [group \in range(num_groups) |->
                             [i \in range(hashes_per_group) |-> 0]],
     seeds |-> seeds,
     phi |-> [num |-> PhiNum, den |-> PhiDen]]

\* _hash: mmh3.hash128(value, seed), an unsigned integer
FlajoletMartinMultiple_hash(value, seed) == h128[value, seed]

\* mutant of FlajoletMartinMultiple_tail_length: the trailing ones are counted
FlajoletMartinMultiple_tail_length_ones(hash_value) ==
    LET binary_hash == from2(bin(hash_value))
    IN  Len(binary_hash) - Len(rstrip(binary_hash, "1"))

FlajoletMartinMultiple_tail_length(hash_value) ==
    LET binary_hash == from2(bin(hash_value))
    IN  Len(binary_hash) - Len(rstrip(binary_hash, "0"))

\* mutant of process_cell: the trailing zeros replace the cell's maximum
process_cell_last(self, value, group, i) ==
    LET index == group * self.hashes_per_group + i
        hash_value == FlajoletMartinMultiple_hash(value, self.seeds[index])
        trailing_zeros == FlajoletMartinMultiple_tail_length(hash_value)
    IN  [self EXCEPT !.max_tail_length[group][i] = trailing_zeros]

\* mutant of process_cell: the trailing zeros are summed into the cell
process_cell_sum(self, value, group, i) ==
    LET index == group * self.hashes_per_group + i
        hash_value == FlajoletMartinMultiple_hash(value, self.seeds[index])
        trailing_zeros == FlajoletMartinMultiple_tail_length(hash_value)
    IN  [self EXCEPT !.max_tail_length[group][i] = @ + trailing_zeros]

\* mutant of process_cell: the seed index runs down the columns
process_cell_transposed(self, value, group, i) ==
    LET index == i * self.num_groups + group
        hash_value == FlajoletMartinMultiple_hash(value, self.seeds[index])
        trailing_zeros == FlajoletMartinMultiple_tail_length(hash_value)
    IN  [self EXCEPT !.max_tail_length[group][i] =
            max(self.max_tail_length[group][i], trailing_zeros)]

\* the body of process's inner loop for one (group, i)
process_cell(self, value, group, i) ==
    LET index == group * self.hashes_per_group + i
        hash_value == FlajoletMartinMultiple_hash(value, self.seeds[index])
        trailing_zeros == FlajoletMartinMultiple_tail_length(hash_value)
    IN  [self EXCEPT !.max_tail_length[group][i] =
            max(self.max_tail_length[group][i], trailing_zeros)]

\* process: "for group in range(num_groups): for i in range(hashes_per_group)",
\* from (group, i) on
RECURSIVE process_loop(_, _, _, _)
process_loop(self, value, group, i) ==
    IF group >= self.num_groups THEN self
    ELSE IF i >= self.hashes_per_group THEN process_loop(self, value, group + 1, 0)
    ELSE process_loop(process_cell(self, value, group, i), value, group, i + 1)

\* mutant of FlajoletMartinMultiple_process: the maxima restart from 0
FlajoletMartinMultiple_process_reset(self, value) ==
    process_loop([self EXCEPT !.max_tail_length =
                     [group \in range(self.num_groups) |->
                         [i \in range(self.hashes_per_group) |-> 0]]],
                 value, 0, 0)

FlajoletMartinMultiple_process(self, value) == process_loop(self, value, 0, 0)

\* the iterations of process's two loops from (group, i) on, in order: each
\* is <<group, i, index>> with index = group * self.hashes_per_group + i
RECURSIVE process_visits(_, _, _)
process_visits(self, group, i) ==
    IF group >= self.num_groups THEN <<>>
    ELSE IF i >= self.hashes_per_group THEN process_visits(self, group + 1, 0)
    ELSE <<<<group, i, group * self.hashes_per_group + i>>>>
            \o process_visits(self, group, i + 1)

\* 2 ** r / self.phi as a fraction over the denominator phi.num: its numerator
corrected(self, r) == pow(2, r) * self.phi.den

\* the list [2 ** r / self.phi for r in group], as a sequence of numerators
corrected_list(self, group) ==
    [k \in 1 .. len(group) |-> corrected(self, group[k - 1])]

\* insertion of x into an ascending sequence
RECURSIVE insert(_, _)
insert(x, s) ==
    IF s = <<>> THEN <<x>>
    ELSE IF x <= Head(s) THEN <<x>> \o s
    ELSE <<Head(s)>> \o insert(x, Tail(s))

\* sorted(list): ascending
RECURSIVE sorted(_)
sorted(list) == IF list = <<>> THEN <<>> ELSE insert(Head(list), sorted(Tail(list)))

\* sum(list)
RECURSIVE sum(_)
sum(list) == IF list = <<>> THEN 0 ELSE Head(list) + sum(Tail(list))

\* mutant of group_median: the smallest element of the group
group_median_first(self, group) == sorted(corrected_list(self, group))[1]

\* mutant of group_median: the element below the one at len // 2
group_median_lower(self, group) ==
    LET sorted_array == sorted(corrected_list(self, group))
    IN  sorted_array[max(1, Len(sorted_array) \div 2)]

\* the median of one group: sorted_array[len(sorted_array) // 2]
group_median(self, group) ==
    LET sorted_array == sorted(corrected_list(self, group))
    IN  sorted_array[(Len(sorted_array) \div 2) + 1]

\* the list group_medians, one median per row of max_tail_length
group_medians(self) ==
    [k \in 1 .. len(self.max_tail_length) |->
        group_median(self, self.max_tail_length[k - 1])]

\* mutant of FlajoletMartinMultiple_estimate_cardinality: the mean is rounded
\* to the nearest integer instead of truncated
FlajoletMartinMultiple_estimate_cardinality_round(self) ==
    LET medians == group_medians(self)
        denominator == self.phi.num * Len(medians)
    IN  (2 * sum(medians) + denominator) \div (2 * denominator)

\* mutant of FlajoletMartinMultiple_estimate_cardinality: the medians are
\* summed and not divided by their number
FlajoletMartinMultiple_estimate_cardinality_total(self) ==
    sum(group_medians(self)) \div self.phi.num

\* mutant of FlajoletMartinMultiple_estimate_cardinality: the mean is
\* rounded up
FlajoletMartinMultiple_estimate_cardinality_ceil(self) ==
    LET medians == group_medians(self)
        denominator == self.phi.num * Len(medians)
    IN  (sum(medians) + denominator - 1) \div denominator

\* estimate_cardinality: int(sum(group_medians) / len(group_medians)); the
\* sum is a numerator over phi.num, and int() truncates the quotient.  An
\* empty group raises IndexError at sorted_array[0], an empty list of
\* medians ZeroDivisionError at the division
FlajoletMartinMultiple_estimate_cardinality(self) ==
    IF \E g \in DOMAIN self.max_tail_length : len(self.max_tail_length[g]) = 0
    THEN "IndexError"
    ELSE IF len(self.max_tail_length) = 0 THEN "ZeroDivisionError"
    ELSE LET medians == group_medians(self)
         IN  sum(medians) \div (self.phi.num * Len(medians))

(***************************************************************************)
(* process_csv: the estimator it is handed, the rows it feeds to it and    *)
(* the estimate it returns                                                 *)
(***************************************************************************)
\* fm.process(value) of the class fm is an instance of
process(self, value) ==
    IF self.class = "FlajoletMartinSimple"
    THEN FlajoletMartinSimple_process(self, value)
    ELSE FlajoletMartinMultiple_process(self, value)

\* fm.estimate_cardinality() of the class fm is an instance of
estimate_cardinality(self) ==
    IF self.class = "FlajoletMartinSimple"
    THEN FlajoletMartinSimple_estimate_cardinality(self)
    ELSE FlajoletMartinMultiple_estimate_cardinality(self)

\* the values a stream can hold for the estimator: those the digest in use
\* is modelled on
Names == IF fm.class = "FlajoletMartinSimple" THEN Elements ELSE FewElements

\* the dimensions a FlajoletMartinMultiple is built with
Dimensions ==
    {d \in (1 .. MaxHashes) \X (1 .. MaxHashes) : d[1] * d[2] <= MaxHashes}

NoBloom == [size |-> 0, hash_count |-> 0, bit_array |-> <<>>]

NoFM == [class |-> None]

\* no driver cell is running
NoRun == [phase |-> None]

InitFM ==
    /\ \/ /\ fm = FlajoletMartinSimple_init
          /\ sha256 \in [Elements -> 1 .. MaxDigest]
          /\ h128 = <<>>
       \/ /\ \E d \in Dimensions :
                \E seeds \in [range(d[1] * d[2]) -> SeedVals] :
                    fm = FlajoletMartinMultiple_init(d[1], d[2], seeds)
          /\ h128 \in [FewElements \X SeedVals -> 0 .. MaxHash128]
          /\ sha256 = <<>>
    /\ seen = {}
    /\ refed = FALSE
    /\ twin = NoFM
    /\ run = NoRun
    /\ calls = <<>>
    /\ ret = [op |-> None, arg |-> None, val |-> None]
    /\ notebook = None
    /\ bloom = NoBloom
    /\ h64 = <<>>
    /\ added = {}

\* one iteration of process_csv's loop that samples the row: fm.process(actor)
Process(value) ==
    /\ fm' = process(fm, value)
    /\ seen' = seen \cup {value}
    /\ refed' = (value \in seen)
    /\ twin' = IF twin = NoFM THEN twin
               ELSE FlajoletMartinSimple_process(twin, value)
    /\ ret' = [op |-> "process", arg |-> value, val |-> None]
    /\ UNCHANGED <<notebook, bloom, h64, added, sha256, h128, run, calls>>

\* process_csv's return: fm.estimate_cardinality()
Estimate ==
    /\ ret' = [op |-> "estimate_cardinality", arg |-> None,
               val |-> estimate_cardinality(fm)]
    /\ refed' = FALSE
    /\ UNCHANGED <<notebook, bloom, h64, added, fm, sha256, h128, seen, twin, run,
                   calls>>

NextFM ==
    \/ \E value \in Names : Process(value)
    \/ Estimate

SpecFM == InitFM /\ [][NextFM]_vars

\* a FlajoletMartinMultiple(1, 1) and a FlajoletMartinSimple whose _hash is
\* the same function as the first one's _hash with its seed, both handed the
\* same rows
InitPair ==
    /\ \E seeds \in [range(1) -> SeedVals] :
          /\ fm = FlajoletMartinMultiple_init(1, 1, seeds)
          /\ h128 \in [FewElements \X SeedVals -> 0 .. MaxDigest]
          /\ sha256 = [value \in FewElements |-> h128[value, seeds[0]]]
    /\ twin = FlajoletMartinSimple_init
    /\ run = NoRun
    /\ calls = <<>>
    /\ seen = {}
    /\ refed = FALSE
    /\ ret = [op |-> None, arg |-> None, val |-> None]
    /\ notebook = None
    /\ bloom = NoBloom
    /\ h64 = <<>>
    /\ added = {}

SpecPair == InitPair /\ [][NextFM]_vars

\* the dimensions FlajoletMartinMultiple.__init__ accepts: any integers (the
\* negative ones build the same empty lists as 0)
AnyDimensions ==
    {d \in (0 .. MaxHashes) \X (0 .. MaxHashes) : d[1] * d[2] <= MaxHashes}

\* FlajoletMartinMultiple(num_groups, hashes_per_group) for any dimensions
InitFMConfig ==
    /\ \E d \in AnyDimensions :
          \E seeds \in [range(d[1] * d[2]) -> SeedVals] :
              fm = FlajoletMartinMultiple_init(d[1], d[2], seeds)
    /\ h128 \in [FewElements \X SeedVals -> 0 .. MaxHash128]
    /\ sha256 = <<>>
    /\ twin = NoFM
    /\ run = NoRun
    /\ calls = <<>>
    /\ seen = {}
    /\ refed = FALSE
    /\ ret = [op |-> None, arg |-> None, val |-> None]
    /\ notebook = None
    /\ bloom = NoBloom
    /\ h64 = <<>>
    /\ added = {}

SpecFMConfig == InitFMConfig /\ [][NextFM]_vars

(***************************************************************************)
(* The Bloom filter's driver                                               *)
(***************************************************************************)
Notebooks == {"part_001", "bloom_filter.ipynb"}

InitBloom ==
    /\ notebook \in Notebooks
    /\ \E bitmap_size \in 1 .. MaxSize, hash_count \in 1 .. MaxHashCount :
          /\ bloom = BloomFilter_init(bitmap_size, hash_count)
          /\ h64 \in [FewElements \X range(hash_count) -> (-MaxHash64) .. MaxHash64]
    /\ added = {}
    /\ ret = [op |-> None, arg |-> None, val |-> None]
    /\ fm = NoFM
    /\ sha256 = <<>>
    /\ h128 = <<>>
    /\ seen = {}
    /\ refed = FALSE
    /\ twin = NoFM
    /\ run = NoRun
    /\ calls = <<>>

\* bloom.add(value), as init_filter calls it for a row
Add(value) ==
    LET done == BloomFilter_add(bloom, Hashes(value))
    IN  /\ bloom' = done.self
        /\ added' = added \cup {value}
        /\ ret' = [op |-> "add", arg |-> value, val |-> done.raised]
        /\ UNCHANGED <<notebook, h64, fm, sha256, h128, seen, refed, twin, run,
                       calls>>

\* mutant of QueryCall: the query clears the bits it read
QueryCall_clearing(value) ==
    /\ ret' = [op |-> "query", arg |-> value, val |-> Query(value)]
    /\ bloom' = [bloom EXCEPT !.bit_array = bitarray_zeros(bloom.size)]
    /\ UNCHANGED <<notebook, h64, added, fm, sha256, h128, seen, refed, twin, run,
                   calls>>

\* bloom.query(value), as test_filter calls it for a row
QueryCall(value) ==
    /\ ret' = [op |-> "query", arg |-> value, val |-> Query(value)]
    /\ UNCHANGED <<notebook, bloom, h64, added, fm, sha256, h128, seen, refed,
                   twin, run, calls>>

NextBloom ==
    \/ \E value \in FewElements : Add(value)
    \/ \E value \in FewElements : QueryCall(value)

SpecBloom == InitBloom /\ [][NextBloom]_vars

\* BloomFilter(bitmap_size, hash_count) of src/unnamed/part_001 for any
\* bitmap_size bitarray() accepts and any hash_count
InitBloomConfig ==
    /\ notebook = "part_001"
    /\ \E bitmap_size \in 0 .. MaxSize, hash_count \in (-1) .. MaxHashCount :
          /\ bloom = BloomFilter_init(bitmap_size, hash_count)
          /\ h64 \in [FewElements \X range(hash_count) -> (-MaxHash64) .. MaxHash64]
    /\ added = {}
    /\ ret = [op |-> None, arg |-> None, val |-> None]
    /\ fm = NoFM
    /\ sha256 = <<>>
    /\ h128 = <<>>
    /\ seen = {}
    /\ refed = FALSE
    /\ twin = NoFM
    /\ run = NoRun
    /\ calls = <<>>

SpecBloomConfig == InitBloomConfig /\ [][NextBloom]_vars

(***************************************************************************)
(* The Bloom notebook's driver cell, unsampled (sampled = False, sr = 1.0): *)
(* init_filter(genres_csv, bloom), test_filter(movies_csv, bloom, sr) and   *)
(* the false positive count                                                 *)
(***************************************************************************)
\* the values of row['genre']
Genres == {"Western", "Drama"}

\* the files genres_csv can be: rows of id and genre
GenreFiles ==
    UNION {[1 .. n -> [id : FewElements, genre : Genres]] : n \in 0 .. MaxRows}

\* the files movies_csv can be: rows of id
MovieFiles == UNION {[1 .. n -> [id : FewElements]] : n \in 0 .. MaxRows}

\* bloom = BloomFilter(bitmap_size, hash_count), and the files on disk
InitRun ==
    /\ notebook = "part_001"
    /\ \E bitmap_size \in 1 .. MaxSize, hash_count \in 1 .. MaxHashCount :
          /\ bloom = BloomFilter_init(bitmap_size, hash_count)
          /\ h64 \in [FewElements \X range(hash_count) -> (-MaxHash64) .. MaxHash64]
    /\ \E genres_csv \in GenreFiles, movies_csv \in MovieFiles :
          run = [phase |-> "init_filter", genres_csv |-> genres_csv,
                 movies_csv |-> movies_csv, row |-> 1, counter |-> 0,
                 nb_westerns |-> 0, nb_found |-> 0, false_positives |-> 0,
                 raised |-> None]
    /\ added = {}
    /\ ret = [op |-> None, arg |-> None, val |-> None]
    /\ fm = NoFM
    /\ sha256 = <<>>
    /\ h128 = <<>>
    /\ seen = {}
    /\ refed = FALSE
    /\ twin = NoFM
    /\ calls = <<>>

\* mutant of InitFilterRow: the counter counts every row of the file
InitFilterRow_all ==
    /\ run.phase = "init_filter"
    /\ run.row <= Len(run.genres_csv)
    /\ LET row == run.genres_csv[run.row]
           done == BloomFilter_add(bloom, Hashes(row.id))
       IN  IF row.genre = "Western"
           THEN /\ bloom' = done.self
                /\ added' = added \cup {row.id}
                /\ ret' = [op |-> "add", arg |-> row.id, val |-> done.raised]
                /\ run' = [run EXCEPT !.row = @ + 1, !.counter = @ + 1]
           ELSE /\ run' = [run EXCEPT !.row = @ + 1, !.counter = @ + 1]
                /\ UNCHANGED <<bloom, added, ret>>
    /\ UNCHANGED <<notebook, h64, fm, sha256, h128, seen, refed, twin, calls>>

\* one iteration of init_filter's loop: a Western row's id is added and
\* counted
InitFilterRow ==
    /\ run.phase = "init_filter"
    /\ run.row <= Len(run.genres_csv)
    /\ LET row == run.genres_csv[run.row]
           done == BloomFilter_add(bloom, Hashes(row.id))
       IN  IF row.genre = "Western"
           THEN /\ bloom' = done.self
                /\ added' = added \cup {row.id}
                /\ ret' = [op |-> "add", arg |-> row.id, val |-> done.raised]
                /\ run' = [run EXCEPT !.row = @ + 1, !.counter = @ + 1]
           ELSE /\ run' = [run EXCEPT !.row = @ + 1]
                /\ UNCHANGED <<bloom, added, ret>>
    /\ UNCHANGED <<notebook, h64, fm, sha256, h128, seen, refed, twin, calls>>

\* init_filter returns counter: nb_westerns = init_filter(genres_csv, bloom)
InitFilterReturn ==
    /\ run.phase = "init_filter"
    /\ run.row > Len(run.genres_csv)
    /\ run' = [run EXCEPT !.phase = "test_filter", !.nb_westerns = run.counter,
                          !.row = 1, !.counter = 0]
    /\ UNCHANGED <<notebook, bloom, h64, added, fm, sha256, h128, seen, refed,
                   twin, calls, ret>>

\* one iteration of test_filter's loop with sample_rate = 1.0: the row is
\* counted when bloom.query(row['id']) is true; ids stays empty
TestFilterRow ==
    /\ run.phase = "test_filter"
    /\ run.row <= Len(run.movies_csv)
    /\ LET row == run.movies_csv[run.row]
           answer == Query(row.id)
       IN  /\ ret' = [op |-> "query", arg |-> row.id, val |-> answer]
           /\ run' = [run EXCEPT !.row = @ + 1,
                                 !.counter = IF answer = "True" THEN @ + 1 ELSE @]
    /\ UNCHANGED <<notebook, bloom, h64, added, fm, sha256, h128, seen, refed,
                   twin, calls>>

\* test_filter returns counter, ids: nb_found, ids = test_filter(...)
TestFilterReturn ==
    /\ run.phase = "test_filter"
    /\ run.row > Len(run.movies_csv)
    /\ run' = [run EXCEPT !.phase = "rate", !.nb_found = run.counter]
    /\ UNCHANGED <<notebook, bloom, h64, added, fm, sha256, h128, seen, refed,
                   twin, calls, ret>>

\* the branch "if not sampled": false_positives = nb_found - nb_westerns,
\* then false_positives / nb_found, which raises when nb_found is 0
FalsePositives ==
    /\ run.phase = "rate"
    /\ run' = [run EXCEPT !.phase = "done",
                          !.false_positives = run.nb_found - run.nb_westerns,
                          !.raised = IF run.nb_found = 0
                                     THEN "ZeroDivisionError" ELSE None]
    /\ UNCHANGED <<notebook, bloom, h64, added, fm, sha256, h128, seen, refed,
                   twin, calls, ret>>

NextRun ==
    \/ InitFilterRow
    \/ InitFilterReturn
    \/ TestFilterRow
    \/ TestFilterReturn
    \/ FalsePositives

SpecRun == InitRun /\ [][NextRun]_vars

(***************************************************************************)
(* Two process calls on one estimator, interleaved at the steps of          *)
(* "self.max_tail_length = max(self.max_tail_length, tail_length)": the     *)
(* hash and tail length, the read of the maximum, the write of the new one  *)
(***************************************************************************)
\* the two callers
Threads == {1, 2}

\* a caller that has not called process
NoCall == [pc |-> "idle", value |-> None, tail_length |-> 0, max_tail_length |-> 0]

\* one estimator shared by the callers: a FlajoletMartinSimple, or a
\* FlajoletMartinMultiple of one cell
InitRace ==
    /\ \/ /\ fm = FlajoletMartinSimple_init
          /\ sha256 \in [Elements -> 1 .. MaxDigest]
          /\ h128 = <<>>
       \/ /\ \E seeds \in [range(1) -> SeedVals] :
                fm = FlajoletMartinMultiple_init(1, 1, seeds)
          /\ h128 \in [FewElements \X SeedVals -> 0 .. MaxHash128]
          /\ sha256 = <<>>
    /\ calls = [t \in Threads |-> NoCall]
    /\ seen = {}
    /\ refed = FALSE
    /\ twin = NoFM
    /\ run = NoRun
    /\ ret = [op |-> None, arg |-> None, val |-> None]
    /\ notebook = None
    /\ bloom = NoBloom
    /\ h64 = <<>>
    /\ added = {}

\* caller t enters process(value) and computes hash_value and the tail length
\* (trailing_zeros in FlajoletMartinMultiple), its local variables
RaceHash(t, value) ==
    /\ calls[t].pc = "idle"
    /\ \A u \in Threads \ {t} : calls[u].value # value
    /\ LET tail_length ==
               IF fm.class = "FlajoletMartinSimple"
               THEN FlajoletMartinSimple_tail_length(FlajoletMartinSimple_hash(value))
               ELSE FlajoletMartinMultiple_tail_length(
                        FlajoletMartinMultiple_hash(value, fm.seeds[0 * fm.hashes_per_group + 0]))
       IN  calls' = [calls EXCEPT ![t] = [pc |-> "hashed", value |-> value,
                                          tail_length |-> tail_length,
                                          max_tail_length |-> 0]]
    /\ UNCHANGED <<notebook, bloom, h64, added, fm, sha256, h128, seen, refed,
                   twin, run, ret>>

\* caller t evaluates the argument self.max_tail_length of max(...)
RaceRead(t) ==
    /\ calls[t].pc = "hashed"
    /\ calls' = [calls EXCEPT ![t].pc = "read",
                              ![t].max_tail_length =
                                  IF fm.class = "FlajoletMartinSimple"
                                  THEN fm.max_tail_length
                                  ELSE fm.max_tail_length[0][0]]
    /\ UNCHANGED <<notebook, bloom, h64, added, fm, sha256, h128, seen, refed,
                   twin, run, ret>>

\* caller t stores max(the value it read, its tail length) and returns
RaceWrite(t) ==
    /\ calls[t].pc = "read"
    /\ LET stored == max(calls[t].max_tail_length, calls[t].tail_length)
       IN  fm' = IF fm.class = "FlajoletMartinSimple"
                 THEN [fm EXCEPT !.max_tail_length = stored]
                 ELSE [fm EXCEPT !.max_tail_length[0][0] = stored]
    /\ calls' = [calls EXCEPT ![t].pc = "done"]
    /\ seen' = seen \cup {calls[t].value}
    /\ ret' = [op |-> "process", arg |-> calls[t].value, val |-> None]
    /\ UNCHANGED <<notebook, bloom, h64, added, sha256, h128, refed, twin, run>>

NextRace ==
    \/ \E t \in Threads : \E value \in Names : RaceHash(t, value)
    \/ \E t \in Threads : RaceRead(t)
    \/ \E t \in Threads : RaceWrite(t)

SpecRace == InitRace /\ [][NextRace]_vars

\* either notebook's session: an estimator fed by process_csv, or a filter
InitAll == InitFM \/ InitBloom

NextAll ==
    \/ fm # NoFM /\ NextFM
    \/ notebook # None /\ NextBloom

SpecAll == InitAll /\ [][NextAll]_vars

(***************************************************************************)
(* Properties of the Bloom filter (SpecBloom)                              *)
(***************************************************************************)
\* the bit positions hash(x, i) mod m, i in 0..k-1, of a value
Positions(x) == {h64[x, i] % bloom.size : i \in range(bloom.hash_count)}

\* C1: no false negatives: every value that was passed to add is answered
\* True by query, in the state right after its add and in every later state.
C1_NoFalseNegatives == \A x \in added : Query(x) = "True"

\* C1's failing case: add of the class of src/bloom_filter.ipynb raised
\* TypeError (a tuple % int in _hashes) and set no bit
C1_Witness ==
    /\ notebook = "bloom_filter.ipynb"
    /\ ret.op = "add"
    /\ ret.val = "TypeError"
    /\ ret.arg \in added
    /\ \A i \in DOMAIN bloom.bit_array : bloom.bit_array[i] = 0
    /\ Query(ret.arg) = "TypeError"

\* C1, for the class of src/unnamed/part_001 alone
C1_NoFalseNegatives_part_001 ==
    notebook = "part_001" => \A x \in added : Query(x) = "True"

\* C2: bits are monotone: no step of add or query turns a 1 bit into 0, and
\* every index position of a value added stays 1 (class of part_001).
C2_BitsMonotone ==
    /\ [][\A i \in DOMAIN bloom.bit_array :
            bloom.bit_array[i] = 1 => bloom'.bit_array[i] = 1]_vars
    /\ [](notebook = "part_001" =>
            \A x \in added : \A at \in Positions(x) : bloom.bit_array[at] = 1)

\* C2's case: a second value was added to a filter that held 1 bits, and
\* some bit is still 0
C2_Witness ==
    /\ notebook = "part_001"
    /\ ret.op = "add"
    /\ added = FewElements
    /\ \E i \in DOMAIN bloom.bit_array : bloom.bit_array[i] = 0
    /\ \E x \in added : ret.arg # x /\ Positions(x) # Positions(ret.arg)

\* C3: query(x) returns True exactly when the bit at hash(x, i) mod m is 1
\* for every i in 0..k-1 (and False otherwise); on a fresh filter it returns
\* False for every value (class of part_001).
C3_QueryIffAllBits ==
    notebook = "part_001" =>
        /\ \A x \in FewElements :
              /\ Query(x) \in {"True", "False"}
              /\ Query(x) = "True" <=>
                    \A at \in Positions(x) : bloom.bit_array[at] = 1
        /\ ret.op = "query" =>
              /\ ret.val \in {"True", "False"}
              /\ ret.val = "True" <=>
                    \A at \in Positions(ret.arg) : bloom.bit_array[at] = 1
        /\ added = {} => \A x \in FewElements : Query(x) = "False"

\* C3's case: query answered False for a value of which one position is set
\* and another is not
C3_Witness ==
    /\ notebook = "part_001"
    /\ ret.op = "query"
    /\ ret.val = "False"
    /\ \E at \in Positions(ret.arg) : bloom.bit_array[at] = 1
    /\ \E at \in Positions(ret.arg) : bloom.bit_array[at] = 0

(***************************************************************************)
(* Properties of the Flajolet-Martin estimators (SpecFM)                   *)
(***************************************************************************)
IsSimple == fm.class = "FlajoletMartinSimple"
IsMultiple == fm.class = "FlajoletMartinMultiple"

\* the number of trailing zero bits of h > 0: the largest t with 2^t | h
TrailingZeros(h) == CHOOSE t \in 0 .. h : h % (2 ^ t) = 0 /\ h % (2 ^ (t + 1)) # 0

\* the largest element of a finite non-empty set of integers
Largest(S) == CHOOSE m \in S : \A y \in S : y <= m

\* the cells (group, i) of a FlajoletMartinMultiple
CellsOf(self) == range(self.num_groups) \X range(self.hashes_per_group)

\* the trailing zeros of the digest a cell sees for a value
CellTail(self, c, x) ==
    FlajoletMartinMultiple_tail_length(
        h128[x, self.seeds[c[1] * self.hashes_per_group + c[2]]])

\* C4: max_tail_length (simple) and every cell max_tail_length[group][i]
\* (multiple) are 0 before the first process call and never decrease.
C4_Monotone ==
    /\ [](seen = {} =>
            IF IsSimple THEN fm.max_tail_length = 0
            ELSE \A c \in CellsOf(fm) : fm.max_tail_length[c[1]][c[2]] = 0)
    /\ [][IF IsSimple THEN fm'.max_tail_length >= fm.max_tail_length
          ELSE \A c \in CellsOf(fm) :
                  fm'.max_tail_length[c[1]][c[2]] >= fm.max_tail_length[c[1]][c[2]]]_vars

\* C4's case: the last value processed has a shorter tail than the maximum
\* an earlier value left
C4_Witness ==
    /\ IsSimple
    /\ ret.op = "process"
    /\ ~refed
    /\ TrailingZeros(sha256[ret.arg]) < fm.max_tail_length

\* C5: after any stream, FlajoletMartinSimple.max_tail_length is the largest
\* of 0 and the trailing-zero counts of the digests of the values processed.
C5_MaxOfTails ==
    IsSimple =>
        fm.max_tail_length =
            Largest({0} \cup {TrailingZeros(sha256[x]) : x \in seen})

\* C5's case: a, b and c were processed, one of them twice, and the maximum
\* is not the tail of the value processed last
C5_Witness ==
    /\ IsSimple
    /\ seen = {"a", "b", "c"}
    /\ ret.op = "process"
    /\ refed
    /\ fm.max_tail_length > TrailingZeros(sha256[ret.arg])
    /\ TrailingZeros(sha256[ret.arg]) > 0

\* the streams of at most MaxLen values
Streams == UNION {[1 .. n -> Names] : n \in 0 .. MaxLen}

\* the estimator after process_csv fed it a stream, unsampled
RECURSIVE feed(_, _)
feed(self, stream) ==
    IF stream = <<>> THEN self
    ELSE feed(process(self, Head(stream)), Tail(stream))

\* two streams are orderings of one multiset
SameMultiset(s, p) ==
    /\ Len(s) = Len(p)
    /\ \A e \in Names :
          Cardinality({k \in 1 .. Len(s) : s[k] = e})
              = Cardinality({k \in 1 .. Len(p) : p[k] = e})

\* two estimators are in the same state and estimate the same cardinality
SameEnd(one, other) ==
    /\ one = other
    /\ estimate_cardinality(one) = estimate_cardinality(other)

\* C6: order invariance: feeding two orderings of one multiset to a fresh
\* estimator (same class, seeds and dimensions) ends in the same state and
\* the same estimate_cardinality(); and in every state reached later, two
\* process calls commute.
C6_OrderInvariance ==
    /\ seen = {} =>
          \A s \in Streams : \A p \in [1 .. Len(s) -> Names] :
              SameMultiset(s, p) => SameEnd(feed(fm, s), feed(fm, p))
    /\ \A x \in Names : \A y \in Names :
          SameEnd(feed(fm, <<x, y>>), feed(fm, <<y, x>>))

\* the estimator as constructed, with the seeds and dimensions of fm
Fresh ==
    IF IsSimple THEN FlajoletMartinSimple_init
    ELSE FlajoletMartinMultiple_init(fm.num_groups, fm.hashes_per_group, fm.seeds)

\* C6's case: a multi-hash estimator processed a and then b, it has a cell
\* where a has the longer tail and a cell where b has, and b then a leads
\* a fresh estimator through another state to the same end
C6_Witness ==
    /\ IsMultiple
    /\ seen = {"a", "b"}
    /\ ret.op = "process"
    /\ ret.arg = "b"
    /\ ~refed
    /\ \E c \in CellsOf(fm) : CellTail(fm, c, "a") > CellTail(fm, c, "b")
    /\ \E c \in CellsOf(fm) : CellTail(fm, c, "b") > CellTail(fm, c, "a")
    /\ feed(Fresh, <<"b">>) # feed(Fresh, <<"a">>)
    /\ feed(Fresh, <<"b", "a">>) = fm

\* C7: process is idempotent per value: processing a value processed before
\* changes neither the state nor the estimate, as a call on the current
\* state and as a step; so re-feeding a stream of such values changes nothing.
C7_Idempotent ==
    /\ [](\A x \in seen :
            /\ process(fm, x) = fm
            /\ estimate_cardinality(process(fm, x)) = estimate_cardinality(fm))
    /\ [](\A s \in Streams :
            (\A k \in 1 .. Len(s) : s[k] \in seen) =>
                /\ feed(fm, s) = fm
                /\ estimate_cardinality(feed(fm, s)) = estimate_cardinality(fm))
    /\ [][refed' => fm' = fm /\ estimate_cardinality(fm') = estimate_cardinality(fm)]_vars

\* C7's case: a value with a tail of its own was processed a second time
C7_Witness ==
    /\ ret.op = "process"
    /\ refed
    /\ IF IsSimple THEN TrailingZeros(sha256[ret.arg]) > 0
       ELSE \E c \in CellsOf(fm) : CellTail(fm, c, ret.arg) > 0

\* C8: FlajoletMartinSimple.estimate_cardinality() returns exactly
\* 2^max_tail_length, for the current max_tail_length.
C8_PowerOfTwo ==
    IsSimple =>
        /\ FlajoletMartinSimple_estimate_cardinality(fm) = 2 ^ fm.max_tail_length
        /\ ret.op = "estimate_cardinality" => ret.val = 2 ^ fm.max_tail_length

\* C8's case: the estimate was read after a value with two trailing zeros
C8_Witness ==
    /\ IsSimple
    /\ ret.op = "estimate_cardinality"
    /\ fm.max_tail_length = 2
    /\ ret.val = 4

\* the group medians 2^r / phi, as numerators over PhiNum
Medians == {group_medians(fm)[k] : k \in 1 .. fm.num_groups}

\* the smallest element of a finite non-empty set of integers
Smallest(S) == CHOOSE m \in S : \A y \in S : m <= y

\* C9 as claimed: the value estimate_cardinality() returns is >= the
\* smallest and <= the largest group median.
C9_MedianBound ==
    IsMultiple =>
        LET e == FlajoletMartinMultiple_estimate_cardinality(fm)
        IN  /\ Smallest(Medians) <= e * PhiNum
            /\ e * PhiNum <= Largest(Medians)

\* C9 as amended: the mean of the group medians lies between the smallest
\* and the largest of them; the value returned is that mean truncated to an
\* integer, so it is <= the largest median and > the smallest median - 1.
C9_MedianBoundTruncated ==
    IsMultiple =>
        LET e == FlajoletMartinMultiple_estimate_cardinality(fm)
            total == sum(group_medians(fm))
        IN  /\ Smallest(Medians) * fm.num_groups <= total
            /\ total <= Largest(Medians) * fm.num_groups
            /\ e * PhiNum * fm.num_groups <= total
            /\ total < (e + 1) * PhiNum * fm.num_groups
            /\ e * PhiNum <= Largest(Medians)
            /\ Smallest(Medians) < (e + 1) * PhiNum
            /\ ret.op = "estimate_cardinality" => ret.val = e

\* C9's case: two groups with different medians, and the value returned is
\* below the smallest of them
C9_Witness ==
    /\ IsMultiple
    /\ ret.op = "estimate_cardinality"
    /\ Cardinality(Medians) >= 2
    /\ \A m \in Medians : ret.val * PhiNum < m

\* the values 2^r / phi of one group (numerators), by position
GroupValues(g) ==
    [i \in range(fm.hashes_per_group) |-> (2 ^ fm.max_tail_length[g][i]) * PhiDen]

\* v is the element at 0-based position n of the group's values in ascending
\* order: fewer than n + 1 values are below it, at least n + 1 not above it
IsAtPosition(v, g, n) ==
    LET values == GroupValues(g)
    IN  /\ \E i \in DOMAIN values : values[i] = v
        /\ Cardinality({i \in DOMAIN values : values[i] < v}) <= n
        /\ Cardinality({i \in DOMAIN values : values[i] <= v}) > n

\* the median of group g: the element at position floor(H / 2)
MedianOf(g) ==
    CHOOSE v \in {GroupValues(g)[i] : i \in range(fm.hashes_per_group)} :
        IsAtPosition(v, g, fm.hashes_per_group \div 2)

\* C10: estimate_cardinality() returns the arithmetic mean of the num_groups
\* group medians truncated toward zero, each median taken over the values
\* 2^max_tail_length[g][i] / phi of its own group (row) only.
C10_MeanOfMedians ==
    IsMultiple =>
        LET e == FlajoletMartinMultiple_estimate_cardinality(fm)
            total == sum([k \in 1 .. fm.num_groups |-> MedianOf(k - 1)])
        IN  /\ \A g \in range(fm.num_groups) :
                  IsAtPosition(MedianOf(g), g, fm.hashes_per_group \div 2)
            /\ e >= 0
            /\ e * PhiNum * fm.num_groups <= total
            /\ total < (e + 1) * PhiNum * fm.num_groups
            /\ ret.op = "estimate_cardinality" => ret.val = e

\* C10's case: two groups of two cells, the groups' medians differ and so do
\* the two values of one group, and the mean is not an integer
C10_Witness ==
    /\ IsMultiple
    /\ ret.op = "estimate_cardinality"
    /\ fm.num_groups = 2
    /\ fm.hashes_per_group = 2
    /\ Cardinality(Medians) = 2
    /\ fm.max_tail_length[0][0] # fm.max_tail_length[0][1]
    /\ fm.max_tail_length[0][0] # fm.max_tail_length[1][0]
    /\ ret.val * PhiNum * fm.num_groups < sum(group_medians(fm))

\* the median estimate_cardinality takes of group g
MedianTaken(g) == group_median(fm, fm.max_tail_length[g])

\* C11: the group median estimate_cardinality uses is the element at 0-based
\* index floor(hashes_per_group / 2) of the group's values in ascending
\* order, for every hashes_per_group >= 1.
C11_MedianIndex ==
    IsMultiple =>
        \A g \in range(fm.num_groups) :
            /\ IsAtPosition(MedianTaken(g), g, fm.hashes_per_group \div 2)
            /\ group_medians(fm)[g + 1] = MedianOf(g)

\* C11's case: the estimate was read from a group of three whose smallest
\* value is below its median
C11_Witness ==
    /\ IsMultiple
    /\ ret.op = "estimate_cardinality"
    /\ fm.hashes_per_group = 3
    /\ \E i \in range(3) : GroupValues(0)[i] < MedianTaken(0)
    /\ IsAtPosition(MedianTaken(0), 0, 1)

\* v is the lower of the two middle elements of group g, of even size
IsLowerMiddle(v, g) == IsAtPosition(v, g, (fm.hashes_per_group \div 2) - 1)

\* v is the upper of the two middle elements of group g, of even size: fewer
\* than half of the values are above it, at least half are not below it
IsUpperMiddle(v, g) ==
    LET values == GroupValues(g)
        half == fm.hashes_per_group \div 2
    IN  /\ \E i \in DOMAIN values : values[i] = v
        /\ Cardinality({i \in DOMAIN values : values[i] > v}) < half
        /\ Cardinality({i \in DOMAIN values : values[i] >= v}) >= half

\* C12 as claimed: for an even hashes_per_group the group median is the
\* lower of the two middle elements of the ascending group.
C12_LowerMiddle ==
    (IsMultiple /\ fm.hashes_per_group % 2 = 0) =>
        \A g \in range(fm.num_groups) : IsLowerMiddle(MedianTaken(g), g)

\* C12 as amended: for an even hashes_per_group the group median is the
\* upper of the two middle elements of the ascending group: the larger value
\* of a group of 2, the third smallest of a group of 4.
C12_UpperMiddle ==
    (IsMultiple /\ fm.hashes_per_group % 2 = 0) =>
        \A g \in range(fm.num_groups) :
            /\ IsUpperMiddle(MedianTaken(g), g)
            /\ fm.hashes_per_group = 2 =>
                  \A i \in range(2) : GroupValues(g)[i] <= MedianTaken(g)
            /\ fm.hashes_per_group = 4 =>
                  MedianTaken(g) = sorted(corrected_list(fm, fm.max_tail_length[g]))[3]

\* C12's case: the estimate was read from one group of two different values
C12_Witness ==
    /\ IsMultiple
    /\ ret.op = "estimate_cardinality"
    /\ fm.num_groups = 1
    /\ fm.hashes_per_group = 2
    /\ GroupValues(0)[0] # GroupValues(0)[1]
    /\ ~IsLowerMiddle(MedianTaken(0), 0)
    /\ ret.val * PhiNum > Smallest({GroupValues(0)[i] : i \in range(2)})

round(num, den) ==
    LET q == num \div den
        r == num % den
    IN  IF 2 * r < den THEN q
        ELSE IF 2 * r > den THEN q + 1
        ELSE IF q % 2 = 0 THEN q ELSE q + 1

\* C14: a FlajoletMartinSimple no value was processed by has max_tail_length
\* 0 and the raw estimate 1, and its corrected estimate int(estimate / phi)
\* equals round(1 / phi).
C14_EmptySimple ==
    (IsSimple /\ seen = {}) =>
        /\ fm.max_tail_length = 0
        /\ FlajoletMartinSimple_estimate_cardinality(fm) = 1
        /\ corrected_cardinality(FlajoletMartinSimple_estimate_cardinality(fm))
              = round(PhiDen, PhiNum)
        /\ ret.op = "estimate_cardinality" =>
              /\ ret.val = 1
              /\ corrected_cardinality(ret.val) = round(PhiDen, PhiNum)

\* C14's case: the estimate of an empty FlajoletMartinSimple was read
C14_Witness ==
    /\ IsSimple
    /\ seen = {}
    /\ ret.op = "estimate_cardinality"
    /\ ret.val = 1
    /\ corrected_cardinality(ret.val) = 1

\* C15: constructing a BloomFilter with bitmap_size <= 0 or hash_count <= 0
\* fails at construction: no instance with a non-positive size or hash count
\* is observable, so no add or query runs on one (no modulo by zero in add,
\* no filter with hash_count = 0 that answers True for every value).
C15_ConstructionFails ==
    /\ bloom.size > 0
    /\ bloom.hash_count > 0
    /\ ret.op \in {"add", "query"} => ret.val # "ZeroDivisionError"
    /\ added = {} => \A x \in FewElements : Query(x) # "True"

\* C15's failing case: BloomFilter(bitmap_size, 0) was constructed, and its
\* query answered True for a value of a filter nothing was added to
C15_Witness ==
    /\ bloom.hash_count <= 0
    /\ bloom.size > 0
    /\ added = {}
    /\ ret.op = "query"
    /\ ret.val = "True"

\* C16: constructing a FlajoletMartinMultiple with num_groups <= 0 or
\* hashes_per_group <= 0 fails at construction: no instance with a
\* non-positive dimension is observable, so no error surfaces later in
\* process or estimate_cardinality.
C16_ConstructionFails ==
    IsMultiple =>
        /\ fm.num_groups > 0
        /\ fm.hashes_per_group > 0
        /\ FlajoletMartinMultiple_estimate_cardinality(fm)
              \notin {"ZeroDivisionError", "IndexError"}
        /\ ret.op = "estimate_cardinality" =>
              ret.val \notin {"ZeroDivisionError", "IndexError"}

\* C16's failing case: FlajoletMartinMultiple(0, hashes_per_group) was
\* constructed, processed a value, and its estimate_cardinality raised
C16_Witness ==
    /\ IsMultiple
    /\ fm.num_groups = 0
    /\ fm.hashes_per_group > 0
    /\ seen # {}
    /\ ret.op = "estimate_cardinality"
    /\ ret.val = "ZeroDivisionError"

\* the seed of cell c of a FlajoletMartinMultiple
SeedOf(self, c) == self.seeds[c[1] * self.hashes_per_group + c[2]]

\* C17: _tail_length gives a hash value of exactly 0 the tail length W (256
\* for the SHA-256 estimator, 128 for the mmh3.hash128 estimator), so that
\* processing a value whose hash is 0 sets the running maximum to W.
C17_ZeroHashHasWidth ==
    /\ FlajoletMartinSimple_tail_length(0) = HashWidth256
    /\ FlajoletMartinMultiple_tail_length(0) = HashWidth128
    /\ IsSimple =>
          \A x \in seen : sha256[x] = 0 => fm.max_tail_length = HashWidth256
    /\ IsMultiple =>
          \A x \in seen : \A c \in CellsOf(fm) :
              h128[x, SeedOf(fm, c)] = 0 =>
                  fm.max_tail_length[c[1]][c[2]] = HashWidth128

\* C17's failing case: a value whose mmh3.hash128 digest is 0 was processed
\* and left the maximum 1 in its cell
C17_Witness ==
    /\ IsMultiple
    /\ ret.op = "process"
    /\ \E c \in CellsOf(fm) :
          /\ h128[ret.arg, SeedOf(fm, c)] = 0
          /\ fm.max_tail_length[c[1]][c[2]] = 1
    /\ FlajoletMartinMultiple_tail_length(0) = 1

\* the number of binary digits of n > 0: n < 2^BitLength(n)
BitLength(n) == Len(digits(n))

\* C18: for every hash value h with 0 < h < 2^W, _tail_length(h) is the
\* number of trailing zero bits of h; so every tail length, max_tail_length
\* and every cell stays in [0, W] in every reachable state, and 2^maxTail is
\* at most 2^W (W: the digits of the largest digest).
C18_TailLengthInRange ==
    /\ \A h \in 1 .. (2 ^ BitLength(MaxDigest)) - 1 :
          /\ FlajoletMartinSimple_tail_length(h) = TrailingZeros(h)
          /\ FlajoletMartinMultiple_tail_length(h) = TrailingZeros(h)
          /\ TrailingZeros(h) < BitLength(MaxDigest)
    /\ IsSimple =>
          /\ \A x \in Elements :
                FlajoletMartinSimple_tail_length(sha256[x]) \in 0 .. BitLength(MaxDigest)
          /\ fm.max_tail_length \in 0 .. BitLength(MaxDigest)
          /\ FlajoletMartinSimple_estimate_cardinality(fm) <= 2 ^ BitLength(MaxDigest)
    /\ IsMultiple =>
          /\ \A x \in FewElements : \A seed \in SeedVals :
                /\ FlajoletMartinMultiple_tail_length(h128[x, seed])
                      \in 0 .. BitLength(MaxHash128)
                /\ h128[x, seed] > 0 =>
                      FlajoletMartinMultiple_tail_length(h128[x, seed])
                          = TrailingZeros(h128[x, seed])
          /\ \A c \in CellsOf(fm) :
                fm.max_tail_length[c[1]][c[2]] \in 0 .. BitLength(MaxHash128)

\* C18's case: a value whose digest has two trailing zeros was processed
\* after one whose digest has none, and the maximum is 2
C18_Witness ==
    /\ IsSimple
    /\ ret.op = "process"
    /\ TrailingZeros(sha256[ret.arg]) = 2
    /\ \E x \in seen : sha256[x] % 2 = 1
    /\ fm.max_tail_length = 2

\* the calls that read a sketch
Reads == {"estimate_cardinality", "query"}

\* C19: reads do not mutate: estimate_cardinality (both classes) and query
\* leave every field of the sketch unchanged, so reads in a row, or
\* interleaved with each other, return the same value each time.
C19_ReadsDoNotMutate ==
    /\ [][ret'.op \in Reads =>
            /\ fm' = fm
            /\ bloom' = bloom
            /\ twin' = twin
            /\ fm # NoFM => estimate_cardinality(fm)' = estimate_cardinality(fm)
            /\ notebook # None => \A x \in FewElements : Query(x)' = Query(x)]_vars
    /\ [](ret.op = "estimate_cardinality" => ret.val = estimate_cardinality(fm))
    /\ [](ret.op = "query" => ret.val = Query(ret.arg))

\* C19's case: the estimate of a multi-hash estimator that processed two
\* values, one of them with a tail, was read
C19_Witness ==
    /\ IsMultiple
    /\ ret.op = "estimate_cardinality"
    /\ seen = FewElements
    /\ \E c \in CellsOf(fm) : fm.max_tail_length[c[1]][c[2]] > 0
    /\ ret.val > 1

\* C20: structural parameters are fixed after construction: process changes
\* only cells of max_tail_length and leaves seeds, num_groups,
\* hashes_per_group, num_hashes, phi and the matrix dimensions unchanged;
\* add changes only bit values and leaves size, hash_count and the length of
\* the bit vector unchanged.
C20_StructureFixed ==
    /\ [][IsMultiple =>
            /\ fm'.seeds = fm.seeds
            /\ fm'.num_groups = fm.num_groups
            /\ fm'.hashes_per_group = fm.hashes_per_group
            /\ fm'.num_hashes = fm.num_hashes
            /\ fm'.phi = fm.phi
            /\ fm'.class = fm.class
            /\ DOMAIN fm'.max_tail_length = DOMAIN fm.max_tail_length
            /\ \A g \in DOMAIN fm.max_tail_length :
                  DOMAIN fm'.max_tail_length[g] = DOMAIN fm.max_tail_length[g]]_vars
    /\ [][notebook # None =>
            /\ bloom'.size = bloom.size
            /\ bloom'.hash_count = bloom.hash_count
            /\ len(bloom'.bit_array) = len(bloom.bit_array)
            /\ DOMAIN bloom'.bit_array = DOMAIN bloom.bit_array]_vars
    /\ [](IsMultiple =>
            /\ len(fm.max_tail_length) = fm.num_groups
            /\ \A g \in DOMAIN fm.max_tail_length :
                  len(fm.max_tail_length[g]) = fm.hashes_per_group
            /\ len(fm.seeds) = fm.num_hashes)
    /\ [](notebook # None => len(bloom.bit_array) = bloom.size)

\* C20's case: process raised a cell of a matrix of two groups of two and
\* left another cell at 0
C20_Witness ==
    /\ IsMultiple
    /\ ret.op = "process"
    /\ fm.num_groups = 2
    /\ fm.hashes_per_group = 2
    /\ \E c \in CellsOf(fm) : fm.max_tail_length[c[1]][c[2]] > 0
    /\ \E c \in CellsOf(fm) : fm.max_tail_length[c[1]][c[2]] = 0

\* C21: an estimate can be read at any point of the stream: for estimators
\* built with positive parameters, estimate_cardinality() after any prefix
\* of process calls, the empty one included, returns an integer and raises
\* nothing; for an empty FlajoletMartinMultiple it returns int(1 / phi) = 1.
C21_EstimateAnytime ==
    /\ estimate_cardinality(fm) \in Nat
    /\ ret.op = "estimate_cardinality" =>
          /\ ret.val \in Nat
          /\ ret.val = estimate_cardinality(fm)
    /\ (IsMultiple /\ seen = {}) =>
          /\ FlajoletMartinMultiple_estimate_cardinality(fm) = 1
          /\ FlajoletMartinMultiple_estimate_cardinality(fm) = corrected_cardinality(1)
          /\ ret.op = "estimate_cardinality" => ret.val = 1

\* C21's case: the estimate of an empty FlajoletMartinMultiple of two groups
\* of two was read
C21_Witness ==
    /\ IsMultiple
    /\ seen = {}
    /\ fm.num_groups = 2
    /\ fm.hashes_per_group = 2
    /\ ret.op = "estimate_cardinality"
    /\ ret.val = 1

\* the number of rows of a file that satisfy a condition on the row
Count(file, Test(_)) == Cardinality({k \in 1 .. Len(file) : Test(file[k])})

\* every id occurs in movies_csv at least as often as in the Western rows of
\* genres_csv
WesternsCovered ==
    \A id \in FewElements :
        LET IsWestern(row) == row.id = id /\ row.genre = "Western"
            IsMovie(row) == row.id = id
        IN  Count(run.genres_csv, IsWestern) <= Count(run.movies_csv, IsMovie)

RECURSIVE process_from(_, _, _, _)
process_from(self, value, visits, k) ==
    IF k > Len(visits) THEN self
    ELSE process_from(process_cell(self, value, visits[k][1], visits[k][2]),
                      value, visits, k + 1)

\* C23: FlajoletMartinMultiple.process(x) updates every cell (group, i)
\* exactly once, with the hash of x under seeds[group * hashes_per_group + i];
\* (group, i) -> group * hashes_per_group + i is a bijection onto
\* 0 .. num_hashes - 1: every seed is used by exactly one cell, no seed index
\* is out of range, no cell is updated with another cell's seed.
C23_EveryCellOnceWithItsSeed ==
    IsMultiple =>
        LET visits == process_visits(fm, 0, 0)
            Visit(c) == {k \in DOMAIN visits : visits[k][1] = c[1] /\ visits[k][2] = c[2]}
            Use(n) == {k \in DOMAIN visits : visits[k][3] = n}
        IN  /\ Len(visits) = fm.num_hashes
            /\ DOMAIN fm.seeds = range(fm.num_hashes)
            /\ \A k \in DOMAIN visits :
                  /\ <<visits[k][1], visits[k][2]>> \in CellsOf(fm)
                  /\ visits[k][3] \in DOMAIN fm.seeds
            /\ \A c \in CellsOf(fm) : Cardinality(Visit(c)) = 1
            /\ \A n \in range(fm.num_hashes) : Cardinality(Use(n)) = 1
            /\ \A c, d \in CellsOf(fm) :
                  c # d => c[1] * fm.hashes_per_group + c[2]
                              # d[1] * fm.hashes_per_group + d[2]
            /\ \A x \in FewElements :
                  /\ FlajoletMartinMultiple_process(fm, x) = process_from(fm, x, visits, 1)
                  /\ \A c \in CellsOf(fm) :
                        FlajoletMartinMultiple_process(fm, x).max_tail_length[c[1]][c[2]]
                            = max(fm.max_tail_length[c[1]][c[2]],
                                  FlajoletMartinMultiple_tail_length(
                                      h128[x, fm.seeds[c[1] * fm.hashes_per_group + c[2]]]))
            /\ ret.op = "process" =>
                  \A c \in CellsOf(fm) :
                      fm.max_tail_length[c[1]][c[2]] >= CellTail(fm, c, ret.arg)

\* C23's case: a 2 x 2 estimator whose cells (0, 1) and (1, 0) have different
\* seeds processed a value that the two seeds hash to different tails, and
\* each cell holds the tail under its own seed
C23_Witness ==
    /\ IsMultiple
    /\ fm.num_groups = 2
    /\ fm.hashes_per_group = 2
    /\ fm.seeds[1] # fm.seeds[2]
    /\ ret.op = "process"
    /\ seen = {ret.arg}
    /\ CellTail(fm, <<0, 1>>, ret.arg) # CellTail(fm, <<1, 0>>, ret.arg)
    /\ fm.max_tail_length[0][1] = CellTail(fm, <<0, 1>>, ret.arg)
    /\ fm.max_tail_length[1][0] = CellTail(fm, <<1, 0>>, ret.arg)

\* the positions of the bit array that hold 1
Ones(self) == {at \in DOMAIN self.bit_array : self.bit_array[at] = 1}

\* C24: after any sequence of add calls the set of 1 bits is exactly the
\* union, over the values added, of their index positions hash(x, i) mod m
\* (add(x) sets those positions and leaves every other bit unchanged), so
\* query(y) for a never-added y is True exactly when all of y's positions lie
\* in that union (class of part_001).
C24_OnesAreUnionOfPositions ==
    notebook = "part_001" =>
        /\ Ones(bloom) = UNION {Positions(x) : x \in added}
        /\ \A x \in FewElements :
              LET after == BloomFilter_add(bloom, Hashes(x)).self
              IN  /\ DOMAIN after.bit_array = DOMAIN bloom.bit_array
                  /\ \A at \in DOMAIN bloom.bit_array :
                        after.bit_array[at] =
                            IF at \in Positions(x) THEN 1 ELSE bloom.bit_array[at]
        /\ \A y \in FewElements \ added :
              Query(y) = "True" <=> Positions(y) \subseteq UNION {Positions(x) : x \in added}
        /\ (ret.op = "query" /\ ret.arg \notin added) =>
              (ret.val = "True" <=>
                  Positions(ret.arg) \subseteq UNION {Positions(x) : x \in added})

\* C24's case: with hash_count = 1, one value was added and the other, never
\* added, collides with it on its one index and was answered True
C24_Witness ==
    /\ notebook = "part_001"
    /\ bloom.hash_count = 1
    /\ bloom.size = MaxSize
    /\ Cardinality(added) = 1
    /\ ret.op = "query"
    /\ ret.arg \notin added
    /\ ret.val = "True"
    /\ \A x \in added : Positions(x) = Positions(ret.arg)

\* C25: query answers are stable upward: for every value y, added or not,
\* once query(y) is True it is True in every later state, whatever is added
\* afterwards; an answer only ever changes from False to True (both
\* notebooks' classes).
C25_AnswersStableUpward ==
    [][\A y \in FewElements :
          /\ Query(y) = "True" => Query(y)' = "True"
          /\ Query(y)' # Query(y) => (Query(y) = "False" /\ Query(y)' = "True")
          /\ \A x \in FewElements :
                Query(y) = "True" =>
                    BloomFilter_query(BloomFilter_add(bloom, Hashes(x)).self,
                                      Hashes(y)) = "True"]_vars

\* C25's case: both values were added, the last add set none of the bits of
\* the value added before it, and that value is still answered True
C25_Witness ==
    /\ notebook = "part_001"
    /\ added = FewElements
    /\ ret.op = "add"
    /\ \E y \in added :
          /\ y # ret.arg
          /\ Positions(y) \cap Positions(ret.arg) = {}
          /\ Query(y) = "True"

\* C26: the reported cardinality never goes down as the stream grows: for
\* FlajoletMartinSimple and for FlajoletMartinMultiple with positive
\* dimensions, estimate_cardinality() after processing one more value is >=
\* estimate_cardinality() before it.
C26_EstimateNeverDecreases ==
    /\ \A x \in Names :
          estimate_cardinality(process(fm, x)) >= estimate_cardinality(fm)
    /\ estimate_cardinality(fm) >=
          (IF IsSimple THEN FlajoletMartinSimple_estimate_cardinality(FlajoletMartinSimple_init)
           ELSE FlajoletMartinMultiple_estimate_cardinality(
                    FlajoletMartinMultiple_init(fm.num_groups, fm.hashes_per_group,
                                                fm.seeds)))
    /\ ret.op = "estimate_cardinality" => ret.val <= estimate_cardinality(fm)

\* C26's case: a 2 x 2 estimator has processed two values, the second raised
\* some cell, and the estimate is above the estimate 1 of the empty stream
C26_Witness ==
    /\ IsMultiple
    /\ fm.num_groups = 2
    /\ fm.hashes_per_group = 2
    /\ Cardinality(seen) = 2
    /\ ret.op = "process"
    /\ \E c \in CellsOf(fm) :
          /\ fm.max_tail_length[c[1]][c[2]] = CellTail(fm, c, ret.arg)
          /\ \A x \in seen \ {ret.arg} : CellTail(fm, c, x) < CellTail(fm, c, ret.arg)
    /\ estimate_cardinality(fm) > 1

\* C27: for size > 0 every index _hashes produces is in 0 .. size - 1, also
\* when mmh3.hash64 returns a negative integer, and _hashes returns exactly
\* hash_count indices; add and query never index the bit array out of range
\* or with a negative index (class of part_001).
C27_IndicesInRange ==
    notebook = "part_001" =>
        /\ bloom.size > 0
        /\ \A x \in FewElements :
              LET hashes == BloomFilter_hashes(bloom, x)
              IN  /\ Len(hashes) = bloom.hash_count
                  /\ \A k \in 1 .. Len(hashes) :
                        /\ hashes[k] \in 0 .. bloom.size - 1
                        /\ hashes[k] \in DOMAIN bloom.bit_array
                        /\ PyIndex(len(bloom.bit_array), hashes[k]) = hashes[k]
                  /\ Hashes(x) = [raised |-> None, hash_results |-> hashes]
                  /\ BloomFilter_add(bloom, Hashes(x)).raised = None
                  /\ Query(x) \in {"True", "False"}
        /\ ret.op = "add" => ret.val = None
        /\ ret.op = "query" => ret.val \in {"True", "False"}

\* C27's case: a value whose first hash is negative was added to a filter of
\* more than one bit, and the bit at the non-negative remainder is set
C27_Witness ==
    /\ notebook = "part_001"
    /\ bloom.size = MaxSize
    /\ ret.op = "add"
    /\ ret.val = None
    /\ h64[ret.arg, 0] < 0
    /\ BloomFilter_hashes(bloom, ret.arg)[1] = bloom.size + h64[ret.arg, 0]
    /\ bloom.bit_array[bloom.size + h64[ret.arg, 0]] = 1

\* C28: the two versions of BloomFilter (src/bloom_filter.ipynb and
\* src/unnamed/part_001) are equivalent: for the same construction and the
\* same calls, _hashes returns the same indices, add leaves the same bit
\* array and query gives the same answer.
C28_VersionsEquivalent ==
    \A x \in FewElements :
        LET draft == BloomFilterNb_hashes(bloom, x)
            final == BloomFilter_hashes_call(bloom, x)
        IN  /\ draft = final
            /\ BloomFilter_add(bloom, draft) = BloomFilter_add(bloom, final)
            /\ BloomFilter_query(bloom, draft) = BloomFilter_query(bloom, final)

\* C28's failing case: query of the class of src/bloom_filter.ipynb raised
\* TypeError for a value that the class of part_001, on the same bit array,
\* answers with a boolean
C28_Witness ==
    /\ notebook = "bloom_filter.ipynb"
    /\ ret.op = "query"
    /\ ret.val = "TypeError"
    /\ BloomFilterNb_hashes(bloom, ret.arg).raised = "TypeError"
    /\ BloomFilter_hashes_call(bloom, ret.arg).raised = None
    /\ BloomFilter_query(bloom, BloomFilter_hashes_call(bloom, ret.arg))
          \in {"True", "False"}

\* the maximum the two callers share: max_tail_length, or the one cell
SharedMax == IF IsSimple THEN fm.max_tail_length ELSE fm.max_tail_length[0][0]

\* C29: no max update is lost under interleaving: when two process calls for
\* different values interleave on one FlajoletMartinSimple (or on one cell of
\* a FlajoletMartinMultiple) at the steps read, max and write, the value is
\* never below the tail length of a call that has written, and once both
\* calls are over it is the maximum of the old value and both tail lengths.
C29_NoLostUpdate ==
    /\ \A t \in Threads :
          calls[t].pc = "done" => SharedMax >= calls[t].tail_length
    /\ (\A t \in Threads : calls[t].pc = "done") =>
          SharedMax = Largest({0} \cup {calls[t].tail_length : t \in Threads})

\* C29's failing case: both calls read the maximum 0, the call with the
\* longer tail wrote first and the other call wrote its shorter tail over it
C29_Witness ==
    /\ IsSimple
    /\ \A t \in Threads : calls[t].pc = "done" /\ calls[t].max_tail_length = 0
    /\ calls[1].tail_length = 2
    /\ calls[2].tail_length = 1
    /\ ret.arg = calls[2].value
    /\ fm.max_tail_length = 1

====
